---------------------------- MODULE Spec2Model ----------------------------
(***************************************************************************)
(* The validator reactor of casper-node (src/src/reactor/validator.rs):    *)
(* construction (Reactor::new), the routing function dispatch_event, the   *)
(* From conversions into Event, and the event queue / effect machinery     *)
(* around it.  The six components, wrap_effects, map_payload and the       *)
(* queue runner live outside validator.rs; they are modelled here as       *)
(* instrumented stubs following the design document.                       *)
(***************************************************************************)
EXTENDS Naturals, Integers, Sequences, FiniteSets, TLC

(***************************************************************************)
(* Bounds of the model.                                                    *)
(***************************************************************************)
\* external stimuli submitted to the queue in one run
MaxSubmit == 1
\* seeds the entropy source can deliver are 0..MaxSeed
MaxSeed == 1
\* events injected in a replay run
MaxReplay == 2

\* modulus of the stand-in generator (a full-period LCG replaces ChaCha20)
RngMod == 8

(***************************************************************************)
(* Data: node ids, messages, component events, reactor events.             *)
(***************************************************************************)
NodeId == {"n1", "n2"}
NoPeer == "all"
Payloads == {"a", "b"}

\* enum Message: one variant per component that talks to peers
MessageVariants == {"Pinger", "Consensus", "DeployGossiper"}
Message == [variant : MessageVariants, payload : Payloads]

\* Message::from(inner message of a component): the #[from] injections
MessageFrom(variant, p) == [variant |-> variant, payload |-> p]

\* The reactor's fields holding components, in construction order
Subsystems == <<"net", "pinger", "storage", "api_server", "consensus", "deploy_gossiper">>
SubsystemSet == {Subsystems[i] : i \in DOMAIN Subsystems}

\* The six component-owned Event variants and the two re-routed ones
OwnedVariants == {"Network", "Pinger", "Storage", "ApiServer", "Consensus", "DeployGossiper"}
EventVariants == OwnedVariants \cup {"NetworkRequest", "NetworkAnnouncement"}

\* a plausible slip: the storage arm calls the API server
Owner_storage_to_api(variant) ==
    CASE variant = "Network" -> "net"
      [] variant = "Pinger" -> "pinger"
      [] variant = "Storage" -> "api_server"
      [] variant = "ApiServer" -> "api_server"
      [] variant = "Consensus" -> "consensus"
      [] variant = "DeployGossiper" -> "deploy_gossiper"

\* dispatch_event's six delegating arms: which field handles which variant
Owner(variant) ==
    CASE variant = "Network" -> "net"
      [] variant = "Pinger" -> "pinger"
      [] variant = "Storage" -> "storage"
      [] variant = "ApiServer" -> "api_server"
      [] variant = "Consensus" -> "consensus"
      [] variant = "DeployGossiper" -> "deploy_gossiper"

\* A component-local event: a countdown (timer-like) or a failure value
LocalEvent(v) == [tag |-> "Local", val |-> v]
FailedEvent == [tag |-> "Failed", val |-> 0]

\* NetworkRequest<NodeId, P>: send to one peer, or broadcast
NetworkRequests(P) ==
    [kind : {"SendMessage"}, dest : NodeId, payload : P]
        \cup [kind : {"Broadcast"}, dest : {NoPeer}, payload : P]

\* NetworkRequest::map_payload(f): the payload mapped, the rest kept
map_payload(req, variant) ==
    [kind |-> req.kind, dest |-> req.dest, payload |-> MessageFrom(variant, req.payload)]

\* The message variant a component's own message type injects into
MessageVariantOf(sub) ==
    CASE sub = "pinger" -> "Pinger"
      [] sub = "consensus" -> "Consensus"
      [] sub = "deploy_gossiper" -> "DeployGossiper"

Senders == {"pinger", "consensus", "deploy_gossiper"}

\* The (peer, payload) pairs the stimuli are built from
Stimuli == {<<"n1", "a">>, <<"n2", "b">>}

\* The requests components issue: a send per stimulus, and a broadcast
SampleRequests ==
    {[kind |-> "SendMessage", dest |-> s[1], payload |-> s[2]] : s \in Stimuli}
        \cup {[kind |-> "Broadcast", dest |-> NoPeer, payload |-> "b"]}

\* Event constructors
OwnedEvent(variant, inner) == [variant |-> variant, inner |-> inner]
NetworkRequestEvent(req) == [variant |-> "NetworkRequest", req |-> req]
NetworkAnnouncementEvent(sender, payload) ==
    [variant |-> "NetworkAnnouncement", sender |-> sender, payload |-> payload]

\* a plausible slip: every request is lifted with the pinger's injection
FromNetworkRequest_pinger(sub, req) ==
    NetworkRequestEvent(map_payload(req, "Pinger"))

\* impl From<NetworkRequest<NodeId, X>> for Event, X one of the three
\* component message types
FromNetworkRequest(sub, req) ==
    NetworkRequestEvent(map_payload(req, MessageVariantOf(sub)))

\* the requests a client or the gossiper may make
Requests == {"q1", "q2"}

\* impl From<ApiRequest> for Event
FromApiRequest(request) ==
    OwnedEvent("ApiServer", [tag |-> "ApiRequest", request |-> request])

\* a plausible slip: the gossiper's request is lifted as an API request
FromDeployGossiperRequest_as_api(request) ==
    OwnedEvent("ApiServer", [tag |-> "ApiRequest", request |-> request])

\* impl From<DeployGossiperRequest> for Event
FromDeployGossiperRequest(request) ==
    OwnedEvent("DeployGossiper", [tag |-> "Request", request |-> request])

\* small_network::Event::from(NetworkRequest<NodeId, Message>)
SmallNetworkEventFrom(req) == [tag |-> "NetworkRequest", req |-> req]

(***************************************************************************)
(* The random source.                                                      *)
(***************************************************************************)
Seeds == 0..MaxSeed

\* ChaCha20Rng::from_entropy(): the generator state is the seed drawn
FromEntropy(seed) == seed % RngMod

\* one draw advances the generator
NextRng(rng) == (5 * rng + 3) % RngMod

(***************************************************************************)
(* Effects.  An Effect is a deferred computation that yields zero or more  *)
(* values when it resolves; a wrapped Effect remembers the constructor     *)
(* that is applied to each value on resolution.                            *)
(***************************************************************************)
Effect(yields) == [yields |-> yields]

\* a plausible slip: effects that yield nothing are short-circuited away
wrap_effects_skip_empty(ctor, effects) ==
    SelectSeq([i \in DOMAIN effects |-> [ctor |-> ctor, effect |-> effects[i]]],
              LAMBDA w : w.effect.yields # <<>>)

\* reactor::wrap_effects(ctor, effects)
wrap_effects(ctor, effects) ==
    [i \in DOMAIN effects |-> [ctor |-> ctor, effect |-> effects[i]]]

\* what a wrapped Effect yields when it resolves
Resolved(wrapped) ==
    [j \in DOMAIN wrapped.effect.yields |->
        OwnedEvent(wrapped.ctor, wrapped.effect.yields[j])]

(***************************************************************************)
(* Components (instrumented): each keeps the log of the events it handled. *)
(***************************************************************************)
\* Effects a component returns for an event, given its draw from the rng
HandlerEffects(sub, inner, draw) ==
    CASE inner.tag = "Local" /\ inner.val > 0 ->
            IF draw % 2 = 1
            THEN <<Effect(<<LocalEvent(inner.val - 1)>>), Effect(<<>>)>>
            ELSE <<Effect(<<LocalEvent(inner.val - 1)>>)>>
      [] inner.tag = "NetworkRequest" ->
            <<Effect(IF draw % 2 = 1 THEN <<FailedEvent>> ELSE <<>>)>>
      [] inner.tag = "MessageReceived" -> <<Effect(<<>>)>>
      [] OTHER -> <<>>

\* Component::handle_event(effect_builder, rng, event)
handle_event(sub, state, rng, inner) ==
    [state |-> Append(state, inner),
     rng |-> NextRng(rng),
     effects |-> HandlerEffects(sub, inner, rng)]


(***************************************************************************)
(* struct Reactor and Reactor::new.                                        *)
(***************************************************************************)
NoReactor == [none |-> TRUE]

\* Sub-configurations: the two fallible constructors can be made to fail
Configs == [validator_net : {"ok", "bind_error"}, storage : {"ok", "open_error"}]

\* Startup effects of the constructors that return some
net_effects == <<Effect(<<>>)>>
pinger_effects == <<Effect(<<LocalEvent(0)>>)>>
api_server_effects == <<Effect(<<>>)>>

\* An early return through `?`: everything built so far is dropped
NewErr(failed, built) ==
    [ok |-> FALSE, error |-> failed, reactor |-> NoReactor, effects |-> <<>>,
     built |-> built, dropped |-> built]

\* a plausible slip: the pinger's startup effects are never collected
InitialEffects_no_pinger ==
    wrap_effects("Network", net_effects)
        \o wrap_effects("ApiServer", api_server_effects)

\* The effects Reactor::new returns on success
InitialEffects ==
    wrap_effects("Network", net_effects)
        \o wrap_effects("Pinger", pinger_effects)
        \o wrap_effects("ApiServer", api_server_effects)

\* a plausible slip: the storage error is swallowed and construction goes on
StorageFails_swallowed(cfg) == FALSE

\* Storage::new(cfg.storage)? fails
StorageFails(cfg) == cfg.storage # "ok"

\* SmallNetwork::new(event_queue, cfg.validator_net)? fails
NetFails(cfg) == cfg.validator_net # "ok"

\* Reactor::new(cfg, event_queue, span)
new(cfg, seed) ==
    IF NetFails(cfg) THEN NewErr("net", <<>>)
    ELSE IF StorageFails(cfg) THEN NewErr("storage", <<"net", "pinger">>)
    ELSE [ok |-> TRUE, error |-> "none",
          reactor |-> [net |-> <<>>, pinger |-> <<>>, storage |-> <<>>,
                       api_server |-> <<>>, consensus |-> <<>>,
                       deploy_gossiper |-> <<>>,
                       rng |-> FromEntropy(seed)],
          effects |-> InitialEffects,
          built |-> Subsystems, dropped |-> <<>>]

(***************************************************************************)
(* Reactor::dispatch_event.                                                *)
(***************************************************************************)
\* a plausible slip: the handler is given a generator made on the spot
HandlerRng_fresh(r) == FromEntropy(0)

\* &mut self.rng: the generator every handle_event call receives
HandlerRng(r) == r.rng

\* a plausible slip: every arm wraps with the pinger's constructor
ArmCtor_pinger(variant) == "Pinger"

\* the constructor an arm wraps its effects with
ArmCtor(variant) == variant

\* a plausible slip: a failure value is propagated out of dispatch
DispatchOutcome_propagate(inner) ==
    IF inner.tag = "Failed" THEN "error" ELSE "effects"

\* dispatch_event returns Multiple<Effect<Event>>, whatever was handled
DispatchOutcome(inner) == "effects"

\* a plausible slip: a catch-all arm swallows Storage events
Delegate_storage_dropped(r, variant, inner) ==
    LET sub == Owner(variant)
        h == handle_event(sub, r[sub], HandlerRng(r), inner)
    IN  IF variant = "Storage"
        THEN [reactor |-> r, effects |-> <<>>, calls |-> <<>>, raw |-> <<>>,
              depth |-> 1, outcome |-> DispatchOutcome(inner)]
        ELSE [reactor |-> [r EXCEPT ![sub] = h.state, !.rng = h.rng],
              effects |-> wrap_effects(ArmCtor(variant), h.effects),
              calls |-> <<[sub |-> sub, inner |-> inner, rng |-> HandlerRng(r)]>>,
              raw |-> h.effects,
              depth |-> 1,
              outcome |-> DispatchOutcome(inner)]

\* One of the six delegating arms
Delegate(r, variant, inner) ==
    LET sub == Owner(variant)
        h == handle_event(sub, r[sub], HandlerRng(r), inner)
    IN  [reactor |-> [r EXCEPT ![sub] = h.state, !.rng = h.rng],
         effects |-> wrap_effects(ArmCtor(variant), h.effects),
         calls |-> <<[sub |-> sub, inner |-> inner, rng |-> HandlerRng(r)]>>,
         raw |-> h.effects,
         depth |-> 1,
         outcome |-> DispatchOutcome(inner)]

\* a plausible slip: the request is turned into another re-routed event
TranslateRequest_to_announcement(req) ==
    NetworkAnnouncementEvent("n1", req.payload)

\* The Requests arm: Event::Network(small_network::Event::from(req))
TranslateRequest(req) == OwnedEvent("Network", SmallNetworkEventFrom(req))

\* a plausible slip (the stale comment "Any incoming message is one for the
\* pinger"): every payload is handed to the pinger
TranslateAnnouncement_all_pinger(sender, payload) ==
    OwnedEvent("Pinger",
        [tag |-> "MessageReceived", sender |-> sender, msg |-> payload.payload])

\* The Announcements arm: the match on the payload
TranslateAnnouncement(sender, payload) ==
    CASE payload.variant = "Consensus" ->
            OwnedEvent("Consensus",
                [tag |-> "MessageReceived", sender |-> sender, msg |-> payload.payload])
      [] payload.variant = "Pinger" ->
            OwnedEvent("Pinger",
                [tag |-> "MessageReceived", sender |-> sender, msg |-> payload.payload])
      [] payload.variant = "DeployGossiper" ->
            OwnedEvent("DeployGossiper",
                [tag |-> "MessageReceived", sender |-> sender, message |-> payload.payload])

\* a plausible slip (the stale comment "Any incoming message is one for the
\* pinger"): an incoming message goes to its owner and to the pinger as well
dispatch_event_also_pinger(r, event) ==
    IF event.variant \in OwnedVariants
    THEN Delegate(r, event.variant, event.inner)
    ELSE IF event.variant = "NetworkRequest"
    THEN LET t == TranslateRequest(event.req)
         IN  [Delegate(r, t.variant, t.inner) EXCEPT !.depth = @ + 1]
    ELSE LET t == TranslateAnnouncement(event.sender, event.payload)
             first == Delegate(r, t.variant, t.inner)
             second == Delegate(first.reactor, "Pinger", t.inner)
         IN  [reactor |-> second.reactor,
              effects |-> first.effects \o second.effects,
              calls |-> first.calls \o second.calls,
              raw |-> first.raw \o second.raw,
              depth |-> 2,
              outcome |-> first.outcome]

\* a plausible slip: the translated event is scheduled on the queue instead
\* of being dispatched within the call
dispatch_event_via_queue(r, event) ==
    IF event.variant \in OwnedVariants
    THEN Delegate(r, event.variant, event.inner)
    ELSE LET t == IF event.variant = "NetworkRequest"
                  THEN TranslateRequest(event.req)
                  ELSE TranslateAnnouncement(event.sender, event.payload)
         IN  [reactor |-> r,
              effects |-> <<[ctor |-> t.variant, effect |-> Effect(<<t.inner>>)]>>,
              calls |-> <<>>,
              raw |-> <<>>,
              depth |-> 1,
              outcome |-> "effects"]

RECURSIVE dispatch_event(_, _)
dispatch_event(r, event) ==
    IF event.variant \in OwnedVariants
    THEN Delegate(r, event.variant, event.inner)
    ELSE IF event.variant = "NetworkRequest"
    THEN [dispatch_event(r, TranslateRequest(event.req)) EXCEPT !.depth = @ + 1]
    ELSE [dispatch_event(r, TranslateAnnouncement(event.sender, event.payload))
            EXCEPT !.depth = @ + 1]


(***************************************************************************)
(* The running node: the event queue, the outstanding effects and the      *)
(* single dispatch point.                                                  *)
(***************************************************************************)
\* ---- Display (validator.rs) and crypto::Error conversions (error.rs) ----

\* what the Display of an inner event, request, announcement or message wrote
InnerTexts == {"Ping(42)", "", "a: b", "X::y"}

\* a plausible slip: the API server's events are labelled with the type name
EventDisplay_api_typename(variant, shown) ==
    CASE variant = "Network" -> "network: " \o shown
      [] variant = "Pinger" -> "pinger: " \o shown
      [] variant = "Storage" -> "storage: " \o shown
      [] variant = "ApiServer" -> "ApiServer: " \o shown
      [] variant = "Consensus" -> "consensus: " \o shown
      [] variant = "DeployGossiper" -> "deploy gossiper: " \o shown
      [] variant = "NetworkRequest" -> "network request: " \o shown
      [] variant = "NetworkAnnouncement" -> "network announcement: " \o shown

\* impl Display for Event: write!(f, "<prefix>: {}", inner), `shown` being
\* what the inner value's Display writes
EventDisplay(variant, shown) ==
    CASE variant = "Network" -> "network: " \o shown
      [] variant = "Pinger" -> "pinger: " \o shown
      [] variant = "Storage" -> "storage: " \o shown
      [] variant = "ApiServer" -> "api server: " \o shown
      [] variant = "Consensus" -> "consensus: " \o shown
      [] variant = "DeployGossiper" -> "deploy gossiper: " \o shown
      [] variant = "NetworkRequest" -> "network request: " \o shown
      [] variant = "NetworkAnnouncement" -> "network announcement: " \o shown

\* impl Display for Message: write!(f, "<Variant>::{}", inner)
MessageDisplay(variant, shown) ==
    CASE variant = "Pinger" -> "Pinger::" \o shown
      [] variant = "Consensus" -> "Consensus::" \o shown
      [] variant = "DeployGossiper" -> "DeployGossiper::" \o shown

\* the error types of the libraries, each with what its to_string() gives
ConvertibleTypes == {"FromHexError", "DecodeError", "PemError", "SignatureError"}
ErrorTexts == {"odd length", "bad byte"}
Causes == [type : ConvertibleTypes \cup {"ReadFileError"}, text : ErrorTexts]

\* a plausible slip: a malformed PEM is reported as a failed key load
ErrorFrom_pem_as_load(cause) ==
    CASE cause.type = "FromHexError" -> [kind |-> "FromHex", source |-> cause]
      [] cause.type = "DecodeError" -> [kind |-> "FromBase64", source |-> cause]
      [] cause.type = "PemError" -> [kind |-> "PrivateKeyLoad", source |-> cause]
      [] cause.type = "SignatureError" -> [kind |-> "AsymmetricKey", text |-> cause.text]

\* Error::from(cause): the two #[from] variants keep the cause, the two
\* hand-written impls keep its to_string()
ErrorFrom(cause) ==
    CASE cause.type = "FromHexError" -> [kind |-> "FromHex", source |-> cause]
      [] cause.type = "DecodeError" -> [kind |-> "FromBase64", source |-> cause]
      [] cause.type = "PemError" -> [kind |-> "FromPem", text |-> cause.text]
      [] cause.type = "SignatureError" -> [kind |-> "AsymmetricKey", text |-> cause.text]

\* Error::PrivateKeyLoad(e): the variant holds a ReadFileError and has no
\* From impl, it is built by naming it
PrivateKeyLoad(e) == [kind |-> "PrivateKeyLoad", source |-> e]

\* #[error("...: {0}")]: the Display of an Error
ErrorDisplay(error) ==
    CASE error.kind = "AsymmetricKey" -> "asymmetric key error: " \o error.text
      [] error.kind = "FromHex" -> "parsing from hex: " \o error.source.text
      [] error.kind = "PrivateKeyLoad" -> "private key load failed: " \o error.source.text
      [] error.kind = "FromBase64" -> "decoding error: " \o error.source.text
      [] error.kind = "FromPem" -> "pem error: " \o error.text

VARIABLES
    cfg,        \* the configuration handed to Reactor::new
    status,     \* "init", "running" (new returned Ok), "failed" (Err), "crashed"
    reactor,    \* the Reactor, or NoReactor
    alive,      \* components that exist: built and not dropped
    newResult,  \* what Reactor::new returned (ok, error, built, dropped, effects)
                \* and the seed from_entropy() drew in it
    queue,      \* the FIFO event queue: entries [id, event, origin]
    pending,    \* outstanding wrapped effects: [id, wrapped]
    active,     \* queue entries inside a dispatch_event call
    last,       \* the most recent completed dispatch_event call
    ids,        \* counters: next event id, next effect id, stimuli so far
    dispatched, \* ids of the events dispatched, in dispatch order
    executed,   \* ids of the effects that ran to completion
    runs,       \* two independent reactor runs fed the same events
    probe       \* a value handed to Display or to an Error conversion, and the result

vars == <<cfg, status, reactor, alive, newResult, queue, pending, active, last,
          ids, dispatched, executed, runs, probe>>

NoDispatch == [none |-> TRUE]
NoRun == [none |-> TRUE]
NoResult == [none |-> TRUE]
NoProbe == [kind |-> "none"]

\* Stimuli: a component-local event that fires once more, or a message
\* arriving from a peer
InjectedEvents ==
    {OwnedEvent(v, LocalEvent(1)) : v \in OwnedVariants}
        \cup {NetworkAnnouncementEvent(s[1], MessageFrom(v, s[2])) :
                    s \in Stimuli, v \in MessageVariants}

SetOf(seq) == {seq[i] : i \in DOMAIN seq}

Init ==
    /\ cfg \in Configs
    /\ status = "init"
    /\ reactor = NoReactor
    /\ alive = {}
    /\ newResult = NoResult
    /\ queue = <<>>
    /\ pending = {}
    /\ active = {}
    /\ last = NoDispatch
    /\ ids = [ev |-> 1, eff |-> 1, ext |-> 0]
    /\ dispatched = <<>>
    /\ executed = {}
    /\ runs = NoRun
    /\ probe = NoProbe

\* effects returned by new or dispatch_event join the outstanding ones
Issue(effects, first) ==
    {[id |-> first + i - 1, wrapped |-> effects[i]] : i \in DOMAIN effects}

\* Reactor::new is called once, at process start
New ==
    /\ status = "init"
    /\ \E seed \in Seeds :
        LET res == new(cfg, seed)
        IN  /\ status' = IF res.ok THEN "running" ELSE "failed"
            /\ reactor' = res.reactor
            /\ alive' = SetOf(res.built) \ SetOf(res.dropped)
            /\ newResult' = [ok |-> res.ok, error |-> res.error, built |-> res.built,
                              dropped |-> res.dropped, effects |-> res.effects,
                              seed |-> seed]
            /\ pending' = Issue(res.effects, ids.eff)
            /\ ids' = [ids EXCEPT !.eff = @ + Len(res.effects)]
    /\ UNCHANGED <<probe, cfg, queue, active, last, dispatched, executed, runs>>

\* a plausible slip: new events jump the queue
Enqueue_front(q, events, origin, first) ==
    [i \in DOMAIN events |->
        [id |-> first + i - 1, event |-> events[i], origin |-> origin]] \o q

\* EventQueueHandle: events join the end of the queue, in the order given
Enqueue(q, events, origin, first) ==
    q \o [i \in DOMAIN events |->
            [id |-> first + i - 1, event |-> events[i], origin |-> origin]]

\* An external stimulus is wrapped into an Event and submitted
Submit ==
    /\ status = "running"
    /\ ids.ext < MaxSubmit
    /\ \E ev \in InjectedEvents :
        queue' = Enqueue(queue, <<ev>>, [kind |-> "external"], ids.ev)
    /\ ids' = [ids EXCEPT !.ev = @ + 1, !.ext = @ + 1]
    /\ UNCHANGED <<probe, cfg, status, reactor, alive, newResult, pending, active, last,
                   dispatched, executed, runs>>

\* A component asks for a send in its own message type; the request is
\* converted into an Event (From<NetworkRequest<NodeId, _>>) and submitted
SubmitNetworkRequest ==
    /\ status = "running"
    /\ ids.ext < MaxSubmit
    /\ \E sub \in Senders, req \in SampleRequests :
        queue' = Enqueue(queue, <<FromNetworkRequest(sub, req)>>,
                         [kind |-> "NetworkRequest", sub |-> sub, req |-> req], ids.ev)
    /\ ids' = [ids EXCEPT !.ev = @ + 1, !.ext = @ + 1]
    /\ UNCHANGED <<probe, cfg, status, reactor, alive, newResult, pending, active, last,
                   dispatched, executed, runs>>

\* An ApiRequest or a DeployGossiperRequest is converted into an Event
\* (From<ApiRequest>, From<DeployGossiperRequest>) and submitted
SubmitRequest ==
    /\ status = "running"
    /\ ids.ext < MaxSubmit
    /\ \E request \in Requests :
        \/ queue' = Enqueue(queue, <<FromApiRequest(request)>>,
                            [kind |-> "ApiRequest", request |-> request], ids.ev)
        \/ queue' = Enqueue(queue, <<FromDeployGossiperRequest(request)>>,
                            [kind |-> "DeployGossiperRequest", request |-> request],
                            ids.ev)
    /\ ids' = [ids EXCEPT !.ev = @ + 1, !.ext = @ + 1]
    /\ UNCHANGED <<probe, cfg, status, reactor, alive, newResult, pending, active, last,
                   dispatched, executed, runs>>

\* An outstanding effect completes: what it yields goes to the queue
Resolve ==
    /\ status = "running"
    /\ \E p \in pending :
        /\ queue' = Enqueue(queue, Resolved(p.wrapped),
                            [kind |-> "effect", eff |-> p.id], ids.ev)
        /\ ids' = [ids EXCEPT !.ev = @ + Len(Resolved(p.wrapped))]
        /\ pending' = pending \ {p}
        /\ executed' = executed \cup {p.id}
    /\ UNCHANGED <<probe, cfg, status, reactor, alive, newResult, active, last,
                   dispatched, runs>>

\* the state after dispatch_event(entry.event) returned
Returned(entry, concurrent) ==
    LET res == dispatch_event(reactor, entry.event)
    IN  /\ reactor' = res.reactor
        /\ status' = IF res.outcome = "effects" THEN "running" ELSE "crashed"
        /\ pending' = pending \cup Issue(res.effects, ids.eff)
        /\ ids' = [ids EXCEPT !.eff = @ + Len(res.effects)]
        /\ last' = [entry |-> entry, before |-> reactor, after |-> res.reactor,
                    calls |-> res.calls, raw |-> res.raw,
                    effects |-> res.effects, depth |-> res.depth,
                    outcome |-> res.outcome, concurrent |-> concurrent]
        /\ dispatched' = Append(dispatched, entry.id)

\* The runner takes the head of the queue and calls dispatch_event, which
\* runs to completion
Dispatch ==
    /\ status = "running"
    /\ active = {}
    /\ queue # <<>>
    /\ Returned(Head(queue), 1)
    /\ queue' = Tail(queue)
    /\ UNCHANGED <<probe, cfg, alive, newResult, active, executed, runs>>

Next ==
    \/ New
    \/ Submit
    \/ SubmitNetworkRequest
    \/ SubmitRequest
    \/ Resolve
    \/ Dispatch

Spec == Init /\ [][Next]_vars

\* One event of each of the eight variants
OneOfEach ==
    {OwnedEvent(v, LocalEvent(1)) : v \in OwnedVariants}
        \cup {FromNetworkRequest("consensus",
                [kind |-> "SendMessage", dest |-> "n1", payload |-> "a"]),
              NetworkAnnouncementEvent("n2", MessageFrom("Pinger", "b"))}

\* A stimulus of any of the eight variants is submitted
Inject ==
    /\ status = "running"
    /\ ids.ext < MaxSubmit
    /\ \E ev \in OneOfEach :
        queue' = Enqueue(queue, <<ev>>, [kind |-> "external"], ids.ev)
    /\ ids' = [ids EXCEPT !.ev = @ + 1, !.ext = @ + 1]
    /\ UNCHANGED <<probe, cfg, status, reactor, alive, newResult, pending, active, last,
                   dispatched, executed, runs>>

FairNext ==
    \/ New
    \/ Inject
    \/ Resolve
    \/ Dispatch

\* The runner keeps taking events off the queue for as long as there are any
FairSpec == Init /\ [][FairNext]_vars /\ WF_vars(Dispatch)

(***************************************************************************)
(* The dispatch call in two steps, entry and return, with effects          *)
(* resolving and stimuli arriving in between.                              *)
(***************************************************************************)
\* a plausible slip: dispatch through a shared borrow, so calls may overlap
CanEnterDispatch_shared == TRUE

\* dispatch_event(&mut self, ..): the exclusive borrow admits one call
CanEnterDispatch == active = {}

\* The runner takes the head of the queue and enters dispatch_event
BeginDispatch ==
    /\ status = "running"
    /\ CanEnterDispatch
    /\ queue # <<>>
    /\ active' = active \cup {Head(queue)}
    /\ queue' = Tail(queue)
    /\ UNCHANGED <<probe, cfg, status, reactor, alive, newResult, pending, last, ids,
                   dispatched, executed, runs>>

\* dispatch_event returns its effects
EndDispatch ==
    /\ status = "running"
    /\ \E entry \in active :
        /\ Returned(entry, Cardinality(active))
        /\ active' = active \ {entry}
    /\ UNCHANGED <<probe, cfg, alive, newResult, queue, executed, runs>>

ConcNext ==
    \/ New
    \/ Submit
    \/ Resolve
    \/ BeginDispatch
    \/ EndDispatch

ConcSpec == Init /\ [][ConcNext]_vars

(***************************************************************************)
(* Two independent runs of the reactor, constructed from the same          *)
(* configuration and fed the same events.                                  *)
(***************************************************************************)
\* what one dispatch contributes to the trace of a run
TraceEntry(res) ==
    [effects |-> res.effects,
     handled |-> [i \in DOMAIN res.calls |->
                    [sub |-> res.calls[i].sub, inner |-> res.calls[i].inner]]]

\* Reactor::new(cfg, ..) in a fresh process: it has no seed argument, the
\* generator comes from ChaCha20Rng::from_entropy() inside it, so a call has
\* one possible result for each value the entropy source may deliver
RunNew ==
    {LET res == new(cfg, entropy)
     IN  [ok |-> res.ok, reactor |-> res.reactor,
          trace |-> <<[effects |-> res.effects, handled |-> <<>>]>>] :
        entropy \in Seeds}

\* dispatch_event in one of the runs
RunDispatch(run, event) ==
    LET res == dispatch_event(run.reactor, event)
    IN  [run EXCEPT !.reactor = res.reactor,
                    !.trace = Append(@, TraceEntry(res))]

\* Two processes construct their reactor from the same configuration
ReplayNew ==
    /\ runs = NoRun
    /\ \E ra \in RunNew, rb \in RunNew :
        runs' = [a |-> ra, b |-> rb, injected |-> <<>>]
    /\ UNCHANGED <<probe, cfg, status, reactor, alive, newResult, queue, pending, active,
                   last, ids, dispatched, executed>>

\* The same event is injected into both runs
ReplayDispatch ==
    /\ runs # NoRun
    /\ runs.a.ok /\ runs.b.ok
    /\ Len(runs.injected) < MaxReplay
    /\ \E ev \in OneOfEach :
        runs' = [a |-> RunDispatch(runs.a, ev), b |-> RunDispatch(runs.b, ev),
                 injected |-> Append(runs.injected, ev)]
    /\ UNCHANGED <<probe, cfg, status, reactor, alive, newResult, queue, pending, active,
                   last, ids, dispatched, executed>>

ReplayNext ==
    \/ ReplayNew
    \/ ReplayDispatch

ReplaySpec == Init /\ [][ReplayNext]_vars

(***************************************************************************)
(* Properties.                                                             *)
(***************************************************************************)
Dispatched == last # NoDispatch
LastEvent == last.entry.event

\* The component that owns a message kind (design document, sections 3, 4.4)
MessageOwner(variant) ==
    IF variant = "Pinger" THEN "pinger"
    ELSE IF variant = "Consensus" THEN "consensus"
    ELSE "deploy_gossiper"

\* The component that owns an Event variant (design document, section 3)
VariantOwner(variant) ==
    IF variant = "Network" THEN "net"
    ELSE IF variant = "Pinger" THEN "pinger"
    ELSE IF variant = "Storage" THEN "storage"
    ELSE IF variant = "ApiServer" THEN "api_server"
    ELSE IF variant = "Consensus" THEN "consensus"
    ELSE "deploy_gossiper"

\* the payload field of a MessageReceived event (msg, or message for the gossiper)
ReceivedPayload(inner) ==
    IF "msg" \in DOMAIN inner THEN inner.msg ELSE inner.message

\* the last dispatch handed exactly `inner` to exactly component `sub`
HandledOnlyBy(sub, inner) ==
    /\ Len(last.calls) = 1
    /\ last.calls[1].sub = sub
    /\ last.calls[1].inner = inner
    /\ last.after[sub] = Append(last.before[sub], inner)
    /\ \A o \in SubsystemSet \ {sub} : last.after[o] = last.before[o]

\* C1: dispatching NetworkAnnouncement::MessageReceived{sender, payload: M(p)}
\* delivers MessageReceived{sender, p} to the component owning M, and to no
\* other component, for each of the three Message variants.
C1_AnnouncementRouted ==
    (Dispatched /\ LastEvent.variant = "NetworkAnnouncement") =>
        LET sub == MessageOwner(LastEvent.payload.variant)
        IN  /\ Len(last.calls) = 1
            /\ last.calls[1].inner.tag = "MessageReceived"
            /\ last.calls[1].inner.sender = LastEvent.sender
            /\ ReceivedPayload(last.calls[1].inner) = LastEvent.payload.payload
            /\ HandledOnlyBy(sub, last.calls[1].inner)

\* a consensus message from n2 reached the consensus engine
C1_Witness ==
    /\ Dispatched
    /\ LastEvent.variant = "NetworkAnnouncement"
    /\ LastEvent.payload.variant = "Consensus"
    /\ LastEvent.sender = "n2"
    /\ Len(reactor.consensus) = 1

\* C2: a NetworkRequest issued by a component in its own message type is
\* converted into Event::NetworkRequest with the payload lifted into the
\* component's Message variant and kind and destination kept, and its dispatch
\* has the network component, and only it, handle exactly one event carrying
\* that request.
C2_RequestRoundTrip ==
    (Dispatched /\ last.entry.origin.kind = "NetworkRequest") =>
        LET o == last.entry.origin
            lifted == [kind |-> o.req.kind, dest |-> o.req.dest,
                       payload |-> [variant |-> IF o.sub = "pinger" THEN "Pinger"
                                                ELSE IF o.sub = "consensus" THEN "Consensus"
                                                ELSE "DeployGossiper",
                                    payload |-> o.req.payload]]
        IN  /\ LastEvent = [variant |-> "NetworkRequest", req |-> lifted]
            /\ HandledOnlyBy("net", [tag |-> "NetworkRequest", req |-> lifted])

\* the consensus engine's send to n1 was handled by the network component
C2_Witness ==
    /\ Dispatched
    /\ last.entry.origin.kind = "NetworkRequest"
    /\ last.entry.origin.sub = "consensus"
    /\ last.entry.origin.req.dest = "n1"
    /\ Len(last.after.net) = Len(last.before.net) + 1

\* C3: dispatching a component-owned Event changes the state of the owning
\* component only; the other five components are as they were.
C3_RoutingPurity ==
    (Dispatched /\ LastEvent.variant \in OwnedVariants) =>
        \A o \in SubsystemSet \ {VariantOwner(LastEvent.variant)} :
            last.after[o] = last.before[o]

\* a Storage event was dispatched and changed the storage component
C3_Witness ==
    /\ Dispatched
    /\ LastEvent.variant = "Storage"
    /\ last.after.storage # last.before.storage

\* the first constructor, in construction order, that the configuration fails
FirstFailing ==
    IF cfg.validator_net # "ok" THEN "net"
    ELSE IF cfg.storage # "ok" THEN "storage"
    ELSE "none"

\* C5: when a component's constructor fails, Reactor::new returns the error of
\* the first failing one, no Reactor and no effects; the components built
\* before it are dropped, and no effect of any component ever executes.
C5_FailFast ==
    (status # "init" /\ FirstFailing # "none") =>
        /\ status = "failed"
        /\ ~newResult.ok
        /\ newResult.error = FirstFailing
        /\ newResult.built =
              (IF FirstFailing = "net" THEN <<>> ELSE <<"net", "pinger">>)
        /\ reactor = NoReactor
        /\ newResult.effects = <<>>
        /\ alive = {}
        /\ pending = {}
        /\ queue = <<>>
        /\ executed = {}
        /\ dispatched = <<>>

\* storage failed to open after the network and the pinger had been built
C5_Witness ==
    /\ status = "failed"
    /\ newResult.error = "storage"
    /\ newResult.dropped = <<"net", "pinger">>

\* the i-th effect returned by new is startup effect k of a component,
\* wrapped with that component's Event variant
IsStartupEffect(i, ctor, effects, k) ==
    /\ newResult.effects[i].ctor = ctor
    /\ newResult.effects[i].effect = effects[k]

\* C6: on success Reactor::new returns the startup effects of the network,
\* the pinger and the API server, all of them, wrapped as Event::Network,
\* Event::Pinger and Event::ApiServer; each is outstanding or has resolved
\* into events of its own variant.
C6_InitialEffects ==
    (status \notin {"init", "failed"}) =>
        LET n == Len(net_effects)
            p == Len(pinger_effects)
            a == Len(api_server_effects)
        IN  /\ newResult.ok
            /\ Len(newResult.effects) = n + p + a
            /\ \A k \in 1..n : IsStartupEffect(k, "Network", net_effects, k)
            /\ \A k \in 1..p : IsStartupEffect(n + k, "Pinger", pinger_effects, k)
            /\ \A k \in 1..a : IsStartupEffect(n + p + k, "ApiServer", api_server_effects, k)
            /\ \A i \in 1..(n + p + a) :
                  \/ [id |-> i, wrapped |-> newResult.effects[i]] \in pending
                  \/ i \in executed
            /\ \A i \in DOMAIN queue :
                  (queue[i].origin.kind = "effect" /\ queue[i].origin.eff \in 1..(n + p + a)) =>
                      queue[i].event.variant = newResult.effects[queue[i].origin.eff].ctor

\* the pinger's startup effect resolved into an Event::Pinger on the queue
C6_Witness ==
    /\ status = "running"
    /\ \E i \in DOMAIN queue :
          /\ queue[i].origin = [kind |-> "effect", eff |-> 2]
          /\ queue[i].event = [variant |-> "Pinger", inner |-> LocalEvent(0)]

\* C7: the effects dispatch_event returns are the handler's effects wrapped:
\* as many as the handler returned, the i-th holding the i-th untouched, and
\* resolving to the arm's constructor applied to each value the i-th yields.
C7_WrapPreserves ==
    Dispatched =>
        /\ Len(last.effects) = Len(last.raw)
        /\ \A i \in DOMAIN last.raw :
              /\ last.effects[i].effect = last.raw[i]
              /\ Len(Resolved(last.effects[i])) = Len(last.raw[i].yields)
              /\ \A j \in DOMAIN last.raw[i].yields :
                    Resolved(last.effects[i])[j] =
                        [variant |-> last.effects[i].ctor,
                         inner |-> last.raw[i].yields[j]]

\* a handler returned two effects, one of which yields nothing
C7_Witness ==
    /\ Dispatched
    /\ Len(last.raw) = 2
    /\ Len(last.effects) = 2
    /\ last.raw[2].yields = <<>>

\* C8: every dispatch_event call returns effects, never an error, and the
\* reactor stays running, also when the event handled carries a failure.
C8_DispatchNeverFails ==
    /\ status # "crashed"
    /\ Dispatched => last.outcome = "effects"

\* a failed send was handled by the network component, and a later event
\* was dispatched after it
C8_Witness ==
    /\ Dispatched
    /\ \E i \in DOMAIN reactor.net : reactor.net[i] = FailedEvent
    /\ last.calls[1].inner # FailedEvent
    /\ status = "running"


NoLoss ==
    \A id \in 1..(ids.ev - 1) :
        (\E i \in DOMAIN queue : queue[i].id = id) \/ id \in SetOf(dispatched)

\* C9: no event is lost from the queue, the queue is emptied again and
\* again, so every event on it is eventually dispatched, and each dispatch
\* hands its event to the handler of exactly one component, once.
C9_NoEventDropped ==
    /\ [](Dispatched =>
            /\ Len(last.calls) = 1
            /\ last.calls[1].sub \in SubsystemSet
            /\ HandledOnlyBy(last.calls[1].sub, last.calls[1].inner))
    /\ []NoLoss
    /\ []<>(queue = <<>>)

\* two events were queued and dispatched, the second a re-routed one
C9_Witness ==
    /\ Len(dispatched) = 2
    /\ queue = <<>>
    /\ LastEvent.variant = "NetworkAnnouncement"
    /\ Len(reactor.pinger) = 2

\* C10: at most one dispatch_event call is in progress at any time, however
\* many effects are outstanding, and every call that returns was the only one
\* in progress.
C10_SingleDispatch ==
    /\ Cardinality(active) <= 1
    /\ Dispatched => last.concurrent = 1

\* a dispatch is in progress while two effects are outstanding, one has
\* completed and its event waits on the queue
C10_Witness ==
    /\ Cardinality(active) = 1
    /\ Cardinality(pending) >= 2
    /\ executed # {}
    /\ queue # <<>>


\* a sequence of ids in strictly increasing order
Increasing(seq) == \A i, j \in DOMAIN seq : i < j => seq[i] < seq[j]

\* C11: events are dispatched in the order they were submitted: ids are
\* given in submission order, the dispatched ids are 1, 2, 3, .. in this
\* order, and whatever waits on the queue was submitted after all of them.
C11_Fifo ==
    /\ dispatched = [i \in 1..Len(dispatched) |-> i]
    /\ Increasing([i \in DOMAIN queue |-> queue[i].id])
    /\ \A i \in DOMAIN queue : queue[i].id > Len(dispatched)

\* two events of different variants were dispatched in submission order
\* while a third one waits
C11_Witness ==
    /\ dispatched = <<1, 2>>
    /\ queue # <<>>
    /\ LastEvent.variant # "Pinger"
    /\ Len(reactor.pinger) = 1

\* the components whose state the last dispatch changed
Mutated == {o \in SubsystemSet : last.after[o] # last.before[o]}

\* C12: one dispatch_event call, re-routed events included, calls
\* handle_event of at most one component, at most once, and changes at most
\* one component.
C12_AtMostOneHandler ==
    Dispatched =>
        /\ Len(last.calls) <= 1
        /\ Cardinality(Mutated) <= 1
        /\ \A o \in SubsystemSet : Len(last.after[o]) <= Len(last.before[o]) + 1

\* a message for the consensus engine was dispatched and changed the
\* consensus engine alone
C12_Witness ==
    /\ Dispatched
    /\ LastEvent.variant = "NetworkAnnouncement"
    /\ LastEvent.payload.variant = "Consensus"
    /\ Mutated = {"consensus"}

\* the generator after n draws from the state s
RECURSIVE Draws(_, _)
Draws(s, n) == IF n = 0 THEN s ELSE Draws((5 * s + 3) % RngMod, n - 1)

\* C15: the generator is made once, in Reactor::new; every handle_event call
\* is given the Reactor's generator as it stands and leaves its draws in it;
\* no dispatch replaces or re-seeds it, so its state is always that of the
\* seeded generator after the draws of the handlers so far.
C15_SingleRng ==
    (status = "running") =>
        /\ reactor.rng = Draws(newResult.seed % RngMod, Len(dispatched))
        /\ Dispatched =>
              /\ \A i \in DOMAIN last.calls : last.calls[i].rng = last.before.rng
              /\ last.after.rng = Draws(last.before.rng, Len(last.calls))

\* a re-routed event was dispatched second, its handler got the generator
\* one draw after seeding and left it two draws after seeding
C15_Witness ==
    /\ status = "running"
    /\ Len(dispatched) = 2
    /\ LastEvent.variant = "NetworkRequest"
    /\ last.calls[1].rng = Draws(newResult.seed, 1)
    /\ last.calls[1].rng # newResult.seed
    /\ reactor.rng = Draws(newResult.seed, 2)

\* an event the reactor makes when it re-routes
Translated(event) ==
    /\ event.variant \in OwnedVariants
    /\ event.inner.tag \in {"NetworkRequest", "MessageReceived"}

\* C18: a NetworkRequest or NetworkAnnouncement is handled by its component
\* within the dispatch_event call that received it, one level down, and the
\* translated event is never on the queue.
C18_RerouteInCall ==
    /\ \A i \in DOMAIN queue : ~Translated(queue[i].event)
    /\ (Dispatched /\ LastEvent.variant \in {"NetworkRequest", "NetworkAnnouncement"}) =>
          /\ Len(last.calls) = 1
          /\ last.calls[1].inner.tag \in {"NetworkRequest", "MessageReceived"}
          /\ last.after[last.calls[1].sub] =
                Append(last.before[last.calls[1].sub], last.calls[1].inner)
          /\ last.entry.id = dispatched[Len(dispatched)]

\* a request was handled by the network component in the call that took it
\* off the queue, while another event was waiting
C18_Witness ==
    /\ Dispatched
    /\ LastEvent.variant = "NetworkRequest"
    /\ Len(last.after.net) = Len(last.before.net) + 1
    /\ queue # <<>>

\* C19: dispatch_event nests at most two deep: a component-owned event is
\* handled at depth one, a NetworkRequest or NetworkAnnouncement re-dispatches
\* once, to the network, the pinger, the consensus engine or the gossiper,
\* and the call returns effects.
C19_DepthAtMostTwo ==
    Dispatched =>
        /\ last.depth \in {1, 2}
        /\ last.outcome = "effects"
        /\ (LastEvent.variant \in OwnedVariants) => last.depth = 1
        /\ (LastEvent.variant \notin OwnedVariants) =>
              /\ last.depth = 2
              /\ Len(last.calls) = 1
              /\ last.calls[1].sub \in {"net", "pinger", "consensus", "deploy_gossiper"}

\* a gossiper message was dispatched at depth two
C19_Witness ==
    /\ Dispatched
    /\ LastEvent.variant = "NetworkAnnouncement"
    /\ last.depth = 2
    /\ last.calls[1].sub = "deploy_gossiper"

\* the Event constructor of a component (enum Event, one variant each)
CtorOf(sub) ==
    CASE sub = "net" -> "Network"
      [] sub = "pinger" -> "Pinger"
      [] sub = "storage" -> "Storage"
      [] sub = "api_server" -> "ApiServer"
      [] sub = "consensus" -> "Consensus"
      [] sub = "deploy_gossiper" -> "DeployGossiper"

\* the constructor the effects of the last dispatch must carry
ExpectedCtor ==
    IF LastEvent.variant = "NetworkRequest" THEN "Network"
    ELSE IF LastEvent.variant = "NetworkAnnouncement" THEN LastEvent.payload.variant
    ELSE LastEvent.variant

\* C14: every effect dispatch_event returns is wrapped with the constructor
\* of the component that handled the event: X for an X event, Network for a
\* NetworkRequest, the owner of M for an announcement carrying M; a follow-up
\* event made by such an effect is an event of that component.
C14_EffectsTagged ==
    Dispatched =>
        \A i \in DOMAIN last.effects :
            /\ last.effects[i].ctor = ExpectedCtor
            /\ last.effects[i].ctor = CtorOf(last.calls[1].sub)
            /\ \A j \in DOMAIN Resolved(last.effects[i]) :
                  Resolved(last.effects[i])[j].variant = ExpectedCtor

\* a consensus message was handled and its effect carries Event::Consensus
C14_Witness ==
    /\ Dispatched
    /\ LastEvent.variant = "NetworkAnnouncement"
    /\ LastEvent.payload.variant = "Consensus"
    /\ Len(last.effects) = 1
    /\ last.effects[1].ctor = "Consensus"

\* C17: an ApiRequest becomes Event::ApiServer(ApiRequest(request)) and a
\* DeployGossiperRequest becomes Event::DeployGossiper(Request(request));
\* dispatching the converted event hands the wrapped request to the API
\* server, respectively the gossiper, and to no other component.
C17_RequestConversions ==
    /\ \A i \in DOMAIN queue :
          /\ queue[i].origin.kind = "ApiRequest" =>
                queue[i].event =
                    [variant |-> "ApiServer",
                     inner |-> [tag |-> "ApiRequest",
                                request |-> queue[i].origin.request]]
          /\ queue[i].origin.kind = "DeployGossiperRequest" =>
                queue[i].event =
                    [variant |-> "DeployGossiper",
                     inner |-> [tag |-> "Request",
                                request |-> queue[i].origin.request]]
    /\ (Dispatched /\ last.entry.origin.kind = "ApiRequest") =>
          HandledOnlyBy("api_server",
                        [tag |-> "ApiRequest", request |-> last.entry.origin.request])
    /\ (Dispatched /\ last.entry.origin.kind = "DeployGossiperRequest") =>
          HandledOnlyBy("deploy_gossiper",
                        [tag |-> "Request", request |-> last.entry.origin.request])

\* a gossiper request was converted, dispatched and reached the gossiper
C17_Witness ==
    /\ Dispatched
    /\ last.entry.origin.kind = "DeployGossiperRequest"
    /\ last.entry.origin.request = "q2"
    /\ last.after.deploy_gossiper = <<[tag |-> "Request", request |-> "q2"]>>
    /\ last.after.api_server = <<>>

\* ---- Display and Error conversions, applied to drawn inputs ----

\* the values to format or convert
ProbeInputs ==
    {[kind |-> "event", variant |-> v, shown |-> t, done |-> FALSE] :
        v \in EventVariants, t \in InnerTexts}
    \cup {[kind |-> "message", variant |-> v, shown |-> t, done |-> FALSE] :
        v \in MessageVariants, t \in InnerTexts}
    \cup {[kind |-> "cause", cause |-> c, done |-> FALSE] : c \in Causes}

PureInit ==
    /\ cfg \in Configs
    /\ status = "init"
    /\ reactor = NoReactor
    /\ alive = {}
    /\ newResult = NoResult
    /\ queue = <<>>
    /\ pending = {}
    /\ active = {}
    /\ last = NoDispatch
    /\ ids = [ev |-> 1, eff |-> 1, ext |-> 0]
    /\ dispatched = <<>>
    /\ executed = {}
    /\ runs = NoRun
    /\ probe \in ProbeInputs

\* format!("{}", event)
FormatEvent ==
    /\ probe.kind = "event"
    /\ ~probe.done
    /\ probe' = [kind |-> "event", variant |-> probe.variant, shown |-> probe.shown,
                 done |-> TRUE, text |-> EventDisplay(probe.variant, probe.shown)]
    /\ UNCHANGED <<cfg, status, reactor, alive, newResult, queue, pending, active,
                   last, ids, dispatched, executed, runs>>

\* format!("{}", message)
FormatMessage ==
    /\ probe.kind = "message"
    /\ ~probe.done
    /\ probe' = [kind |-> "message", variant |-> probe.variant, shown |-> probe.shown,
                 done |-> TRUE, text |-> MessageDisplay(probe.variant, probe.shown)]
    /\ UNCHANGED <<cfg, status, reactor, alive, newResult, queue, pending, active,
                   last, ids, dispatched, executed, runs>>

\* a failing library call inside a function returning crypto::Result: `?`
\* converts with Error::from; a failed file read is wrapped by naming
\* Error::PrivateKeyLoad
ConvertError ==
    /\ probe.kind = "cause"
    /\ ~probe.done
    /\ LET error == IF probe.cause.type = "ReadFileError"
                    THEN PrivateKeyLoad(probe.cause)
                    ELSE ErrorFrom(probe.cause)
       IN  probe' = [kind |-> "cause", cause |-> probe.cause, done |-> TRUE,
                     error |-> error, text |-> ErrorDisplay(error)]
    /\ UNCHANGED <<cfg, status, reactor, alive, newResult, queue, pending, active,
                   last, ids, dispatched, executed, runs>>

PureNext == FormatEvent \/ FormatMessage \/ ConvertError

PureSpec == PureInit /\ [][PureNext]_vars

\* the prefix the design gives each Event variant
EventPrefix(variant) ==
    CASE variant = "Network" -> "network"
      [] variant = "Pinger" -> "pinger"
      [] variant = "Storage" -> "storage"
      [] variant = "ApiServer" -> "api server"
      [] variant = "Consensus" -> "consensus"
      [] variant = "DeployGossiper" -> "deploy gossiper"
      [] variant = "NetworkRequest" -> "network request"
      [] variant = "NetworkAnnouncement" -> "network announcement"

\* C13: an Event is displayed as the fixed lower-case prefix of its variant,
\* ": " and what the inner value displays; a Message as the name of its
\* variant, "::" and what the inner value displays; Event::Pinger(p) gives
\* "pinger: " + p, Message::Consensus(c) gives "Consensus::" + c; two
\* variants never share a prefix.
C13_DisplayPassthrough ==
    /\ (probe.kind = "event" /\ probe.done) =>
          /\ probe.text = EventPrefix(probe.variant) \o ": " \o probe.shown
          /\ probe.variant = "Pinger" => probe.text = "pinger: " \o probe.shown
          /\ \A v \in EventVariants \ {probe.variant} :
                EventDisplay(v, probe.shown) # probe.text
    /\ (probe.kind = "message" /\ probe.done) =>
          /\ probe.text = probe.variant \o "::" \o probe.shown
          /\ probe.variant = "Consensus" => probe.text = "Consensus::" \o probe.shown
          /\ \A v \in MessageVariants \ {probe.variant} :
                MessageDisplay(v, probe.shown) # probe.text

\* an API server event whose inner value displays as "Ping(42)" was formatted
C13_Witness ==
    /\ probe.kind = "event"
    /\ probe.done
    /\ probe.variant = "ApiServer"
    /\ probe.text = "api server: Ping(42)"

\* the kinds that report invalid data
InvalidDataKinds == {"AsymmetricKey", "FromHex", "FromBase64", "FromPem"}

\* C16: each cause converts to its own kind of Error: hex to FromHex, base64
\* to FromBase64, PEM to FromPem, signature or key to AsymmetricKey; a
\* PrivateKeyLoad comes from a failed file read only, and a failed file read
\* never becomes an invalid-data kind.
C16_ErrorKinds ==
    (probe.kind = "cause" /\ probe.done) =>
        /\ probe.cause.type = "FromHexError" => probe.error.kind = "FromHex"
        /\ probe.cause.type = "DecodeError" => probe.error.kind = "FromBase64"
        /\ probe.cause.type = "PemError" => probe.error.kind = "FromPem"
        /\ probe.cause.type = "SignatureError" => probe.error.kind = "AsymmetricKey"
        /\ probe.error.kind = "PrivateKeyLoad" <=> probe.cause.type = "ReadFileError"
        /\ probe.cause.type = "ReadFileError" => probe.error.kind \notin InvalidDataKinds

\* a malformed PEM was converted and is reported as a PEM error
C16_Witness ==
    /\ probe.kind = "cause"
    /\ probe.done
    /\ probe.cause = [type |-> "PemError", text |-> "bad byte"]
    /\ probe.error = [kind |-> "FromPem", text |-> "bad byte"]
    /\ probe.text = "pem error: bad byte"

=============================================================================
